---- MODULE Spec2Model ----
(***************************************************************************)
(* Session lifecycle of backend/src/libs/wbot.ts: the session registry     *)
(* (sessions), initWbot with its event handlers and reconnect closure,     *)
(* initializeWithRetry, destroyClient, getWbot and removeWbot.             *)
(*                                                                         *)
(* Every `await` of the source is a suspension point: the code up to the   *)
(* await is one action, the continuation after it another.  A suspended    *)
(* async call is a task record in the bag `tasks`.  whatsapp.update(...)    *)
(* assigns the fields of the shared account object when it is called and   *)
(* then suspends its caller.                                               *)
(*                                                                         *)
(* Indices are 1-based: findIndex returns 0 where the source returns -1.   *)
(***************************************************************************)
EXTENDS Integers, Sequences, FiniteSets, Bags, TLC

\* ---- program constants -------------------------------------------------
MAX_RETRIES == 5

\* ---- bounds of the model -----------------------------------------------
NumAccounts == 2
MaxHandles == 2
MaxEvents == 2
MaxRemoves == 2
MaxAuthEvents == 5
MaxChats == 3
MaxUnread == 2

Accounts == 1..NumAccounts
Handles == 1..MaxHandles
QrPayloads == {"XYZ"}

VARIABLES
    whatsapp,   \* the account objects: [Accounts -> [status, qrcode, retries, session]]
    sessions,   \* the registry: a sequence of client handles
    wbot,       \* the client handles made by initWbot calls
    promise,    \* the promise returned by each initWbot call
    tasks,      \* bag of suspended async calls
    timers,     \* pending setTimeout(reconnect, RECONNECT_INTERVAL) per handle
    nEvents,    \* number of events the engine has emitted so far
    nRemoves,   \* number of removeWbot calls so far
    limit,      \* how far the environment goes: the numbers of initWbot calls, of
                \* accounts they are for, of events, of removeWbot calls and of
                \* failures of one connect sequence
    out,        \* what the last step did: its operation and its outputs
    sync        \* one call of syncUnreadMessages: its position and the calls it made

vars == <<whatsapp, sessions, wbot, promise, tasks, timers, nEvents, nRemoves, limit, out,
          sync>>

\* ---- helpers -----------------------------------------------------------
NoAccount == [status |-> "", qrcode |-> "", retries |-> 0, session |-> ""]

NoTask == [kind |-> "", h |-> 0, pc |-> "", retries |-> 0, calls |-> 0,
           waits |-> 0, idx |-> 0, id |-> 0, n |-> 0, qr |-> ""]

NoOut == [op |-> "", h |-> 0, id |-> 0, res |-> 0, calls |-> 0, waits |-> 0,
          io |-> <<>>, prev |-> NoAccount, qr |-> ""]

NoSync == [pc |-> "idle", chats |-> <<>>, i |-> 0, fetched |-> 0, j |-> 0,
           log |-> <<>>, inflight |-> 0]

Min(S) == CHOOSE x \in S : \A y \in S : x <= y

\* sessions.findIndex(s => s.id === id)
findIndex(id) ==
    LET hits == {i \in 1..Len(sessions) : wbot[sessions[i]].id = id}
    IN  IF hits = {} THEN 0 ELSE Min(hits)

\* sessions.splice(i, 1): removes the element at i when there is one
splice(s, i) ==
    IF i >= 1 /\ i <= Len(s)
    THEN SubSeq(s, 1, i - 1) \o SubSeq(s, i + 1, Len(s))
    ELSE s

\* an emit that sends the notification twice
emitTwice(a) == <<[action |-> "update", session |-> whatsapp[a]],
                  [action |-> "update", session |-> whatsapp[a]]>>

\* io.emit("whatsappSession", {action: "update", session: whatsapp})
emit(a) == <<[action |-> "update", session |-> whatsapp[a]]>>

Spawn(t) == tasks (+) SetToBag({t})
Finish(t) == tasks (-) SetToBag({t})
Become(t, u) == (tasks (-) SetToBag({t})) (+) SetToBag({u})
Running == BagToSet(tasks)

Used(h) == wbot[h].owner # 0
Built(h) == promise[h].state # "none" /\ wbot[h].built

\* The engine emits events on a handle that is connected, or connecting.
Connecting(h) == \E t \in Running : t.h = h /\ t.pc = "initialize"
Active(h) == Built(h) /\ (wbot[h].open \/ Connecting(h))

\* The environments explored.  Registry: several initWbot calls and accounts,
\* connects that succeed.  Lifecycle: one initWbot call, connects that may
\* fail until the retries are used up, an account that was saved with any
\* retries count and with or without credentials.
Registry ==
    {[inits |-> MaxHandles, accounts |-> NumAccounts, events |-> MaxEvents,
      removes |-> MaxRemoves, fails |-> 0, retries |-> 0, session |-> ""]}

Lifecycle ==
    {[inits |-> 1, accounts |-> 1, events |-> MaxEvents, removes |-> 0,
      fails |-> MAX_RETRIES + 2, retries |-> s.retries, session |-> s.session] :
        s \in {[retries |-> 0, session |-> ""], [retries |-> 2, session |-> "creds"]}}

Live ==
    {[inits |-> 1, accounts |-> 1, events |-> MaxEvents, removes |-> 1,
      fails |-> MAX_RETRIES + 2, retries |-> 2, session |-> "creds"]}

\* Authentication: one initWbot call whose connect succeeds, an account saved
\* with retries 0, and a longer run of events.
Authentication ==
    {[inits |-> 1, accounts |-> 1, events |-> MaxAuthEvents, removes |-> 0,
      fails |-> 0, retries |-> 0, session |-> "creds"]}

InitWith(profiles) ==
    /\ limit \in profiles
    /\ whatsapp = [a \in Accounts |-> [status |-> "OPENING", qrcode |-> "",
                                       retries |-> limit.retries,
                                       session |-> limit.session]]
    /\ sessions = <<>>
    /\ wbot = [h \in Handles |-> [owner |-> 0, id |-> 0, built |-> FALSE, open |-> FALSE,
                                  destroyed |-> FALSE, readies |-> 0]]
    /\ promise = [h \in Handles |-> [state |-> "none", value |-> 0, by |-> 0]]
    /\ tasks = EmptyBag
    /\ timers = [h \in Handles |-> 0]
    /\ nEvents = 0
    /\ nRemoves = 0
    /\ out = NoOut
    /\ sync = NoSync

Init == InitWith(Registry \cup Lifecycle)

\* ---- the promise made by initWbot (line 59) ------------------------------
\* resolve(wbot): settles a pending promise, does nothing to a settled one
resolve(p, v, n) ==
    IF p.state = "pending" THEN [state |-> "resolved", value |-> v, by |-> n] ELSE p

\* a catch clause that logs and forgets to reject
rejectNever(p) == p

\* reject(error)
reject(p) ==
    IF p.state = "pending" THEN [state |-> "rejected", value |-> 0, by |-> 0] ELSE p

\* ---- initializeWithRetry (lines 25-36) ---------------------------------
\* the comparison off by one
ShouldRetryOnceMore(retries) == retries <= MAX_RETRIES

\* if (retries < MAX_RETRIES)
ShouldRetry(retries) == retries < MAX_RETRIES

\* the call initializeWithRetry(wbot, whatsapp, retries): runs up to the
\* await of wbot.initialize()
initializeWithRetry(t, retries) ==
    [t EXCEPT !.pc = "initialize", !.retries = retries, !.calls = t.calls + 1]

\* ---- initWbot (lines 58-202) -------------------------------------------
NextHandle == Min({h \in Handles : ~Used(h)})

\* The body of the promise executor: builds the client, attaches the
\* handlers and starts initializeWithRetry; a synchronous throw (getIO,
\* JSON.parse, new Client) rejects the promise.
InitWbot(a) ==
    /\ a <= limit.accounts
    /\ \E h \in Handles : ~Used(h) /\ h <= limit.inits
    /\ LET h == NextHandle IN
       \E ok \in BOOLEAN :
         /\ wbot' = [wbot EXCEPT ![h].owner = a, ![h].built = ok]
         /\ IF ok
            THEN /\ promise' = [promise EXCEPT ![h].state = "pending"]
                 /\ tasks' = Spawn(initializeWithRetry(
                                     [NoTask EXCEPT !.kind = "init", !.h = h], 0))
            ELSE /\ promise' = [promise EXCEPT ![h] = reject([@ EXCEPT !.state = "pending"])]
                 /\ tasks' = tasks
         /\ out' = [NoOut EXCEPT !.op = IF ok THEN "initWbot" ELSE "initWbotThrew", !.h = h]
    /\ UNCHANGED <<whatsapp, sessions, timers, nEvents, nRemoves, limit, sync>>

\* await wbot.initialize() returns: the chain ends without an error
InitializeOk(t) ==
    /\ t \in Running /\ t.pc = "initialize"
    /\ wbot' = [wbot EXCEPT ![t.h].open = TRUE]
    /\ tasks' = Finish(t)
    /\ out' = [NoOut EXCEPT !.op = "initialized", !.h = t.h, !.calls = t.calls,
                            !.waits = t.waits]
    /\ UNCHANGED <<whatsapp, sessions, promise, timers, nEvents, nRemoves, limit, sync>>

\* await wbot.initialize() throws and the retries are not used up: the
\* chain starts the setTimeout of RECONNECT_INTERVAL and awaits it
InitializeRetry(t) ==
    /\ t \in Running /\ t.pc = "initialize" /\ t.retries < limit.fails
    /\ ShouldRetry(t.retries)
    /\ tasks' = Become(t, [t EXCEPT !.pc = "wait"])
    /\ out' = [NoOut EXCEPT !.op = "retrying", !.h = t.h, !.calls = t.calls,
                            !.waits = t.waits]
    /\ UNCHANGED <<whatsapp, sessions, wbot, promise, timers, nEvents, nRemoves, limit, sync>>

\* the RECONNECT_INTERVAL has passed: return initializeWithRetry(.., retries + 1)
RetryWaitDone(t) ==
    /\ t \in Running /\ t.pc = "wait"
    /\ tasks' = Become(t, initializeWithRetry([t EXCEPT !.waits = t.waits + 1],
                                              t.retries + 1))
    /\ out' = [NoOut EXCEPT !.op = "waited", !.h = t.h, !.calls = t.calls,
                            !.waits = t.waits + 1]
    /\ UNCHANGED <<whatsapp, sessions, wbot, promise, timers, nEvents, nRemoves, limit, sync>>

\* await wbot.initialize() throws and the retries are used up, in the call
\* of line 192: throw error, caught by .catch(error => reject(error))
InitExhausted(t) ==
    /\ t \in Running /\ t.pc = "initialize" /\ t.kind = "init" /\ t.retries < limit.fails
    /\ ~ShouldRetry(t.retries)
    /\ promise' = [promise EXCEPT ![t.h] = reject(@)]
    /\ tasks' = Finish(t)
    /\ out' = [NoOut EXCEPT !.op = "initExhausted", !.h = t.h, !.calls = t.calls,
                            !.waits = t.waits]
    /\ UNCHANGED <<whatsapp, sessions, wbot, timers, nEvents, nRemoves, limit, sync>>

\* ---- the event handlers of initWbot ------------------------------------
Owner(h) == wbot[h].owner

CanEmit(h) == Active(h) /\ nEvents < limit.events

Handler(kind, h) == [NoTask EXCEPT !.kind = kind, !.h = h, !.pc = "update"]

\* a registration that does not look for the id first
RegisterAlways(h, a) ==
    /\ wbot' = [wbot EXCEPT ![h].id = a]
    /\ sessions' = Append(sessions, h)

\* lines 111-115 and 180-184: register the handle unless the registry has
\* a session with the account's id
Register(h, a) ==
    IF findIndex(a) = 0
    THEN /\ wbot' = [wbot EXCEPT ![h].id = a]
         /\ sessions' = Append(sessions, h)
    ELSE UNCHANGED <<wbot, sessions>>

\* an update that leaves the qr payload out
qrUpdateNoCode(w, qr) == [w EXCEPT !.status = "qrcode", !.retries = 0]

\* line 109: whatsapp.update({ qrcode: qr, status: "qrcode", retries: 0 })
qrUpdate(w, qr) == [w EXCEPT !.qrcode = qr, !.status = "qrcode", !.retries = 0]

\* on("qr"), lines 106-109: up to the await of whatsapp.update
QrEvent(h, qr) ==
    /\ CanEmit(h)
    /\ whatsapp' = [whatsapp EXCEPT ![Owner(h)] = qrUpdate(@, qr)]
    /\ tasks' = Spawn([Handler("qr", h) EXCEPT !.qr = qr])
    /\ nEvents' = nEvents + 1
    /\ out' = [NoOut EXCEPT !.op = "qr", !.h = h, !.qr = qr, !.prev = whatsapp[Owner(h)]]
    /\ UNCHANGED <<sessions, wbot, promise, timers, nRemoves, limit, sync>>

\* on("qr"), lines 111-120: after the await
QrResume(t) ==
    /\ t \in Running /\ t.kind = "qr" /\ t.pc = "update"
    /\ Register(t.h, Owner(t.h))
    /\ tasks' = Finish(t)
    /\ out' = [NoOut EXCEPT !.op = "qrDone", !.h = t.h, !.qr = t.qr,
                            !.io = emit(Owner(t.h))]
    /\ UNCHANGED <<whatsapp, promise, timers, nEvents, nRemoves, limit, sync>>

\* on("authenticated"), lines 123-125: logs
AuthenticatedEvent(h) ==
    /\ CanEmit(h)
    /\ nEvents' = nEvents + 1
    /\ out' = [NoOut EXCEPT !.op = "authenticated", !.h = h, !.prev = whatsapp[Owner(h)]]
    /\ UNCHANGED <<whatsapp, sessions, wbot, promise, tasks, timers, nRemoves, limit, sync>>

\* lines 136-140: const retry = whatsapp.retries; whatsapp.update({status, retries})
authFailureUpdate(w) ==
    [w EXCEPT !.status = "DISCONNECTED", !.retries = w.retries + 1]

\* line 132: if (whatsapp.retries > 1)
authFailureMustReset(w) == w.retries > 1

\* a reset that empties the qrcode instead of the credentials
authFailureResetQrcode(w) == [w EXCEPT !.qrcode = "", !.retries = 0]

\* line 133: whatsapp.update({ session: "", retries: 0 })
authFailureResetUpdate(w) == [w EXCEPT !.session = "", !.retries = 0]

\* on("auth_failure"), lines 127-140: up to the first await it reaches
AuthFailureEvent(h) ==
    /\ CanEmit(h)
    /\ IF authFailureMustReset(whatsapp[Owner(h)])
       THEN /\ whatsapp' = [whatsapp EXCEPT ![Owner(h)] = authFailureResetUpdate(@)]
            /\ tasks' = Spawn([Handler("auth_failure", h) EXCEPT !.pc = "reset"])
       ELSE /\ whatsapp' = [whatsapp EXCEPT ![Owner(h)] = authFailureUpdate(@)]
            /\ tasks' = Spawn(Handler("auth_failure", h))
    /\ nEvents' = nEvents + 1
    /\ out' = [NoOut EXCEPT !.op = "auth_failure", !.h = h, !.prev = whatsapp[Owner(h)]]
    /\ UNCHANGED <<sessions, wbot, promise, timers, nRemoves, limit, sync>>

\* on("auth_failure"), lines 136-140: after the await of line 133
AuthFailureReset(t) ==
    /\ t \in Running /\ t.kind = "auth_failure" /\ t.pc = "reset"
    /\ whatsapp' = [whatsapp EXCEPT ![Owner(t.h)] = authFailureUpdate(@)]
    /\ tasks' = Become(t, [t EXCEPT !.pc = "update"])
    /\ out' = [NoOut EXCEPT !.op = "auth_failureReset", !.h = t.h,
                            !.prev = whatsapp[Owner(t.h)]]
    /\ UNCHANGED <<sessions, wbot, promise, timers, nEvents, nRemoves, limit, sync>>

\* on("auth_failure"), lines 142-147: after the await of line 137
AuthFailureResume(t) ==
    /\ t \in Running /\ t.kind = "auth_failure" /\ t.pc = "update"
    /\ timers' = [timers EXCEPT ![t.h] = @ + 1]
    /\ tasks' = Finish(t)
    /\ out' = [NoOut EXCEPT !.op = "auth_failureDone", !.h = t.h, !.io = emit(Owner(t.h))]
    /\ UNCHANGED <<whatsapp, sessions, wbot, promise, nEvents, nRemoves, limit, sync>>

\* lines 153-156 and 94-97: whatsapp.update({ status: "DISCONNECTED", qrcode: "" })
disconnectedUpdate(w) == [w EXCEPT !.status = "DISCONNECTED", !.qrcode = ""]

\* on("disconnected"), lines 150-156: up to the await
DisconnectedEvent(h) ==
    /\ CanEmit(h)
    /\ whatsapp' = [whatsapp EXCEPT ![Owner(h)] = disconnectedUpdate(@)]
    /\ tasks' = Spawn(Handler("disconnected", h))
    /\ nEvents' = nEvents + 1
    /\ out' = [NoOut EXCEPT !.op = "disconnected", !.h = h, !.prev = whatsapp[Owner(h)]]
    /\ UNCHANGED <<sessions, wbot, promise, timers, nRemoves, limit, sync>>

\* a handler that notifies and schedules no reconnect
DisconnectedResumeNoTimer(t) ==
    /\ t \in Running /\ t.kind = "disconnected" /\ t.pc = "update"
    /\ tasks' = Finish(t)
    /\ out' = [NoOut EXCEPT !.op = "disconnectedDone", !.h = t.h, !.io = emit(Owner(t.h))]
    /\ UNCHANGED <<whatsapp, sessions, wbot, promise, timers, nEvents, nRemoves, limit, sync>>

\* on("disconnected"), lines 158-163: after the await
DisconnectedResume(t) ==
    /\ t \in Running /\ t.kind = "disconnected" /\ t.pc = "update"
    /\ timers' = [timers EXCEPT ![t.h] = @ + 1]
    /\ tasks' = Finish(t)
    /\ out' = [NoOut EXCEPT !.op = "disconnectedDone", !.h = t.h, !.io = emit(Owner(t.h))]
    /\ UNCHANGED <<whatsapp, sessions, wbot, promise, nEvents, nRemoves, limit, sync>>

\* an update that leaves the retries count
readyUpdateKeepRetries(w) == [w EXCEPT !.status = "CONNECTED", !.qrcode = ""]

\* lines 169-173: whatsapp.update({ status: "CONNECTED", qrcode: "", retries: 0 })
readyUpdate(w) == [w EXCEPT !.status = "CONNECTED", !.qrcode = "", !.retries = 0]

\* on("ready"), lines 166-173: up to the await of whatsapp.update
ReadyEvent(h) ==
    /\ CanEmit(h) /\ wbot[h].open
    /\ whatsapp' = [whatsapp EXCEPT ![Owner(h)] = readyUpdate(@)]
    /\ wbot' = [wbot EXCEPT ![h].readies = @ + 1]
    /\ tasks' = Spawn([Handler("ready", h) EXCEPT !.n = wbot[h].readies + 1])
    /\ nEvents' = nEvents + 1
    /\ out' = [NoOut EXCEPT !.op = "ready", !.h = h, !.prev = whatsapp[Owner(h)]]
    /\ UNCHANGED <<sessions, promise, timers, nRemoves, limit, sync>>

\* on("ready"), lines 175-187: after the await, up to the first await of
\* syncUnreadMessages (wbot.getChats())
ReadyResume(t) ==
    /\ t \in Running /\ t.kind = "ready" /\ t.pc = "update"
    /\ Register(t.h, Owner(t.h))
    /\ tasks' = Become(t, [t EXCEPT !.pc = "sync"])
    /\ out' = [NoOut EXCEPT !.op = "readyRegistered", !.h = t.h, !.io = emit(Owner(t.h))]
    /\ UNCHANGED <<whatsapp, promise, timers, nEvents, nRemoves, limit, sync>>

\* on("ready"), lines 187-189: syncUnreadMessages returns and resolve(wbot)
\* runs, or it throws (getChats, fetchMessages, handleMessage or sendSeen
\* failed) and the handler ends there
ReadySyncDone(t) ==
    /\ t \in Running /\ t.kind = "ready" /\ t.pc = "sync"
    /\ \E ok \in BOOLEAN :
         /\ promise' = IF ok THEN [promise EXCEPT ![t.h] = resolve(@, t.h, t.n)]
                       ELSE promise
         /\ out' = [NoOut EXCEPT !.op = IF ok THEN "readyDone" ELSE "readySyncThrew",
                                 !.h = t.h, !.res = t.n]
    /\ tasks' = Finish(t)
    /\ UNCHANGED <<whatsapp, sessions, wbot, timers, nEvents, nRemoves, limit, sync>>

\* ---- syncUnreadMessages (lines 38-56) ----------------------------------
\* The call of line 187, step by step; ReadySyncDone is its summary.  A chat
\* is its unreadCount, a message of a chat its position in the array that
\* fetchMessages returned; sync.log lists the calls made, in order, and
\* sync.inflight counts the calls made and not yet settled.
ChatLists == UNION {[1..n -> 0..MaxUnread] : n \in 0..MaxChats}

Call(name, chat, arg) == [call |-> name, chat |-> chat, arg |-> arg]

\* a loop that fetches every chat, unread or not
forChatsAll(s, i) ==
    IF i > Len(s.chats)
    THEN [s EXCEPT !.pc = "done", !.i = i]
    ELSE [s EXCEPT !.pc = "fetchMessages", !.i = i, !.fetched = 0, !.j = 0,
                   !.log = Append(@, Call("fetchMessages", i, s.chats[i])),
                   !.inflight = @ + 1]

\* the rest of the for loop of line 43 from chat i on, up to its next await:
\* chats whose unreadCount is 0 are passed over, the first other one gets
\* fetchMessages({limit: chat.unreadCount}); after the last chat the call ends
RECURSIVE forChats(_, _)
forChats(s, i) ==
    IF i > Len(s.chats)
    THEN [s EXCEPT !.pc = "done", !.i = i]
    ELSE IF s.chats[i] > 0
         THEN [s EXCEPT !.pc = "fetchMessages", !.i = i, !.fetched = 0, !.j = 0,
                        !.log = Append(@, Call("fetchMessages", i, s.chats[i])),
                        !.inflight = @ + 1]
         ELSE forChats(s, i + 1)

\* the rest of the for loop of line 49 from message j on, up to its next
\* await: handleMessage(msg, wbot) of message j, or chat.sendSeen() after
\* the last one
forMessages(s, j) ==
    IF j <= s.fetched
    THEN [s EXCEPT !.pc = "handleMessage", !.j = j,
                   !.log = Append(@, Call("handleMessage", s.i, j)),
                   !.inflight = @ + 1]
    ELSE [s EXCEPT !.pc = "sendSeen", !.j = j,
                   !.log = Append(@, Call("sendSeen", s.i, 0)),
                   !.inflight = @ + 1]

others == <<whatsapp, sessions, wbot, promise, tasks, timers, nEvents, nRemoves, limit, out>>

\* line 39: syncUnreadMessages is called and awaits wbot.getChats()
SyncStart ==
    /\ sync.pc = "idle"
    /\ sync' = [sync EXCEPT !.pc = "getChats", !.inflight = @ + 1,
                            !.log = Append(@, Call("getChats", 0, 0))]
    /\ UNCHANGED others

\* lines 39-45: getChats returns the chats
SyncChats ==
    /\ sync.pc = "getChats"
    /\ \E chats \in ChatLists :
         sync' = forChats([sync EXCEPT !.chats = chats, !.inflight = @ - 1], 1)
    /\ UNCHANGED others

\* lines 45-53: fetchMessages returns at most `limit` messages
SyncFetched ==
    /\ sync.pc = "fetchMessages"
    /\ \E k \in 0..sync.chats[sync.i] :
         sync' = forMessages([sync EXCEPT !.fetched = k, !.inflight = @ - 1], 1)
    /\ UNCHANGED others

\* lines 49-53: handleMessage returns
SyncHandled ==
    /\ sync.pc = "handleMessage"
    /\ sync' = forMessages([sync EXCEPT !.inflight = @ - 1], sync.j + 1)
    /\ UNCHANGED others

\* lines 53-55: sendSeen returns
SyncSeen ==
    /\ sync.pc = "sendSeen"
    /\ sync' = forChats([sync EXCEPT !.inflight = @ - 1], sync.i + 1)
    /\ UNCHANGED others

\* the awaited call rejects: no try in syncUnreadMessages, the error leaves
\* the function
SyncThrew ==
    /\ sync.pc \in {"getChats", "fetchMessages", "handleMessage", "sendSeen"}
    /\ sync' = [sync EXCEPT !.pc = "threw", !.inflight = @ - 1]
    /\ UNCHANGED others

\* ---- reconnect (lines 87-104) ------------------------------------------
\* a reconnect that connects without destroying the client first
ReconnectStartNoDestroy(h) ==
    /\ timers[h] > 0
    /\ timers' = [timers EXCEPT ![h] = @ - 1]
    /\ tasks' = Spawn(initializeWithRetry(
                        [NoTask EXCEPT !.kind = "reconnect", !.h = h], 0))
    /\ out' = [NoOut EXCEPT !.op = "reconnect", !.h = h]
    /\ UNCHANGED <<whatsapp, sessions, wbot, promise, nEvents, nRemoves, limit, sync>>

\* the timer of line 147 or 163 fires: reconnect runs up to the await of
\* wbot.destroy() in destroyClient
ReconnectStart(h) ==
    /\ timers[h] > 0
    /\ timers' = [timers EXCEPT ![h] = @ - 1]
    /\ tasks' = Spawn([NoTask EXCEPT !.kind = "reconnect", !.h = h, !.pc = "destroy"])
    /\ out' = [NoOut EXCEPT !.op = "reconnect", !.h = h]
    /\ UNCHANGED <<whatsapp, sessions, wbot, promise, nEvents, nRemoves, limit, sync>>

\* destroyClient (lines 17-23): whether the call throws when wbot.destroy()
\* returns (ok) or throws (~ok); the catch clause logs the error and returns
destroyClientThrows(ok) == FALSE

\* what wbot.destroy() leaves of the handle
destroyed(w, ok) == IF ok THEN [w EXCEPT !.open = FALSE, !.destroyed = TRUE] ELSE w

\* lines 90-91: destroyClient returns and initializeWithRetry(wbot, whatsapp)
\* is called; an error of destroyClient would go to the catch of line 92
ReconnectDestroyed(t) ==
    /\ t \in Running /\ t.kind = "reconnect" /\ t.pc = "destroy"
    /\ \E ok \in BOOLEAN :
         /\ wbot' = [wbot EXCEPT ![t.h] = destroyed(@, ok)]
         /\ IF destroyClientThrows(ok)
            THEN /\ whatsapp' = [whatsapp EXCEPT ![Owner(t.h)] = disconnectedUpdate(@)]
                 /\ tasks' = Become(t, [t EXCEPT !.pc = "update"])
                 /\ out' = [NoOut EXCEPT !.op = "reconnectDestroyThrew", !.h = t.h,
                                         !.prev = whatsapp[Owner(t.h)]]
            ELSE /\ whatsapp' = whatsapp
                 /\ tasks' = Become(t, initializeWithRetry(t, 0))
                 /\ out' = [NoOut EXCEPT !.op = "reconnectConnect", !.h = t.h]
    /\ UNCHANGED <<sessions, promise, timers, nEvents, nRemoves, limit, sync>>

\* lines 92-97: the retries of the reconnect are used up: the catch clause,
\* up to the await of whatsapp.update
ReconnectExhausted(t) ==
    /\ t \in Running /\ t.pc = "initialize" /\ t.kind = "reconnect" /\ t.retries < limit.fails
    /\ ~ShouldRetry(t.retries)
    /\ whatsapp' = [whatsapp EXCEPT ![Owner(t.h)] = disconnectedUpdate(@)]
    /\ tasks' = Become(t, [t EXCEPT !.pc = "update"])
    /\ out' = [NoOut EXCEPT !.op = "reconnectExhausted", !.h = t.h, !.calls = t.calls,
                            !.waits = t.waits, !.prev = whatsapp[Owner(t.h)]]
    /\ UNCHANGED <<sessions, wbot, promise, timers, nEvents, nRemoves, limit, sync>>

\* a cycle that, having failed, schedules the next one
ReconnectFailedReschedule(t) ==
    /\ t \in Running /\ t.kind = "reconnect" /\ t.pc = "update"
    /\ tasks' = Finish(t)
    /\ timers' = [timers EXCEPT ![t.h] = @ + 1]
    /\ out' = [NoOut EXCEPT !.op = "reconnectFailed", !.h = t.h, !.io = emit(Owner(t.h))]
    /\ UNCHANGED <<whatsapp, sessions, wbot, promise, nEvents, nRemoves, limit, sync>>

\* lines 99-102: after the await
ReconnectFailed(t) ==
    /\ t \in Running /\ t.kind = "reconnect" /\ t.pc = "update"
    /\ tasks' = Finish(t)
    /\ out' = [NoOut EXCEPT !.op = "reconnectFailed", !.h = t.h, !.io = emit(Owner(t.h))]
    /\ UNCHANGED <<whatsapp, sessions, wbot, promise, timers, nEvents, nRemoves, limit, sync>>

\* ---- getWbot (lines 204-211) -------------------------------------------
\* a lookup that takes the first session whatever its id
getWbotFirst(whatsappId) == IF sessions = <<>> THEN 0 ELSE sessions[1]

\* the session returned, or 0 for throw new AppError("ERR_WAPP_NOT_INITIALIZED")
getWbot(whatsappId) ==
    LET sessionIndex == findIndex(whatsappId)
    IN  IF sessionIndex = 0 THEN 0 ELSE sessions[sessionIndex]

GetWbot(whatsappId) ==
    /\ out' = [NoOut EXCEPT !.op = "getWbot", !.id = whatsappId, !.res = getWbot(whatsappId)]
    /\ UNCHANGED <<whatsapp, sessions, wbot, promise, tasks, timers, nEvents, nRemoves, limit, sync>>

\* ---- removeWbot (lines 213-223) ----------------------------------------
\* lines 215-217: up to the await of wbot.destroy() in destroyClient, or to
\* the end when no session has the id
RemoveWbot(whatsappId) ==
    /\ nRemoves < limit.removes
    /\ nRemoves' = nRemoves + 1
    /\ LET sessionIndex == findIndex(whatsappId) IN
       IF sessionIndex # 0
       THEN /\ tasks' = Spawn([NoTask EXCEPT !.kind = "remove", !.pc = "destroy",
                                      !.h = sessions[sessionIndex],
                                      !.idx = sessionIndex, !.id = whatsappId])
            /\ out' = [NoOut EXCEPT !.op = "removeWbot", !.id = whatsappId,
                                    !.res = sessionIndex]
       ELSE /\ tasks' = tasks
            /\ out' = [NoOut EXCEPT !.op = "removeDone", !.id = whatsappId]
    /\ UNCHANGED <<whatsapp, sessions, wbot, promise, timers, nEvents, limit, sync>>

\* line 218, after the await: sessions.splice(sessionIndex, 1), with the
\* index found before the await; skipped if destroyClient threw (line 220)
RemoveResume(t) ==
    /\ t \in Running /\ t.kind = "remove" /\ t.pc = "destroy"
    /\ \E ok \in BOOLEAN :
         /\ wbot' = [wbot EXCEPT ![t.h] = destroyed(@, ok)]
         /\ sessions' = IF destroyClientThrows(ok) THEN sessions
                        ELSE splice(sessions, t.idx)
    /\ tasks' = Finish(t)
    /\ out' = [NoOut EXCEPT !.op = "removeDone", !.id = t.id, !.h = t.h, !.res = t.idx]
    /\ UNCHANGED <<whatsapp, promise, timers, nEvents, nRemoves, limit, sync>>

\* ---- the system --------------------------------------------------------
Next ==
    \/ \E a \in Accounts : InitWbot(a)
    \/ \E t \in Running : InitializeOk(t)
    \/ \E t \in Running : InitializeRetry(t)
    \/ \E t \in Running : RetryWaitDone(t)
    \/ \E t \in Running : InitExhausted(t)
    \/ \E h \in Handles, qr \in QrPayloads : QrEvent(h, qr)
    \/ \E t \in Running : QrResume(t)
    \/ \E h \in Handles : AuthenticatedEvent(h)
    \/ \E h \in Handles : AuthFailureEvent(h)
    \/ \E t \in Running : AuthFailureReset(t)
    \/ \E t \in Running : AuthFailureResume(t)
    \/ \E h \in Handles : DisconnectedEvent(h)
    \/ \E t \in Running : DisconnectedResume(t)
    \/ \E h \in Handles : ReadyEvent(h)
    \/ \E t \in Running : ReadyResume(t)
    \/ \E t \in Running : ReadySyncDone(t)
    \/ \E h \in Handles : ReconnectStart(h)
    \/ \E t \in Running : ReconnectDestroyed(t)
    \/ \E t \in Running : ReconnectExhausted(t)
    \/ \E t \in Running : ReconnectFailed(t)
    \/ \E id \in Accounts : GetWbot(id)
    \/ \E id \in Accounts : RemoveWbot(id)
    \/ \E t \in Running : RemoveResume(t)

Spec == Init /\ [][Next]_vars

\* The event loop runs the continuation of every await whose promise has
\* settled, and fires every timer; the account update and wbot.destroy()
\* settle.  Nothing is assumed of the events the engine emits, of the
\* outcome of wbot.initialize() or of the callers.
Fairness ==
    /\ WF_vars(\E t \in Running : QrResume(t))
    /\ WF_vars(\E t \in Running : AuthFailureReset(t))
    /\ WF_vars(\E t \in Running : AuthFailureResume(t))
    /\ WF_vars(\E t \in Running : DisconnectedResume(t))
    /\ WF_vars(\E t \in Running : ReadyResume(t))
    /\ WF_vars(\E t \in Running : ReconnectFailed(t))
    /\ WF_vars(\E t \in Running : RetryWaitDone(t))
    /\ WF_vars(\E t \in Running : RemoveResume(t))
    /\ \A h \in Handles :
         /\ WF_vars(ReconnectStart(h))
         /\ WF_vars(\E t \in Running : t.h = h /\ ReconnectDestroyed(t))

FairSpec == InitWith(Live) /\ [][Next]_vars /\ Fairness

\* The handlers that write the account's retries, qrcode and credentials:
\* initWbot and the qr, auth_failure and ready handlers with their awaits, in
\* every interleaving.  The timers that auth_failure sets stay pending.
NextAuth ==
    \/ \E a \in Accounts : InitWbot(a)
    \/ \E t \in Running : InitializeOk(t)
    \/ \E h \in Handles, qr \in QrPayloads : QrEvent(h, qr)
    \/ \E t \in Running : QrResume(t)
    \/ \E h \in Handles : AuthFailureEvent(h)
    \/ \E t \in Running : AuthFailureReset(t)
    \/ \E t \in Running : AuthFailureResume(t)
    \/ \E h \in Handles : ReadyEvent(h)
    \/ \E t \in Running : ReadyResume(t)
    \/ \E t \in Running : ReadySyncDone(t)

SpecAuth == InitWith(Authentication) /\ [][NextAuth]_vars

\* One call of syncUnreadMessages with every list of chats, every number of
\* messages fetched and every awaited call failing or not.
NextSync ==
    \/ SyncStart
    \/ SyncChats
    \/ SyncFetched
    \/ SyncHandled
    \/ SyncSeen
    \/ SyncThrew

SpecSync == InitWith(Registry) /\ [][NextSync]_vars

\* ========================================================================
\* Properties
\* ========================================================================
Registered(id) == \E i \in 1..Len(sessions) : wbot[sessions[i]].id = id
Exhausted == out.op \in {"initExhausted", "reconnectExhausted"}
Acct(h) == whatsapp[Owner(h)]

\* C1: the registry never holds two sessions with the same account id,
\* whatever qr and ready events, initWbot calls, reconnects and removeWbot
\* calls have happened.
C1_OneSessionPerIdentity ==
    \A i, j \in 1..Len(sessions) :
        wbot[sessions[i]].id = wbot[sessions[j]].id => i = j

\* C1 witness: a second handle of an account has just run its qr or ready
\* registration while another handle of that account is registered.
C1_Witness ==
    /\ out.op \in {"qrDone", "readyRegistered"}
    /\ \E i \in 1..Len(sessions) :
         /\ sessions[i] # out.h
         /\ wbot[sessions[i]].id = Owner(out.h)

\* C2 as stated: a connect sequence whose connects all fail makes exactly
\* MAX_RETRIES calls of initialize(), with one wait between two calls.
C2_ExactlyMaxRetriesCalls ==
    Exhausted => out.calls = MAX_RETRIES /\ out.waits = out.calls - 1

\* C2 amended: such a sequence makes exactly MAX_RETRIES + 1 calls of
\* initialize() (the first attempt and MAX_RETRIES retries) before the error
\* reaches its caller, and exactly one full wait lies between two
\* consecutive calls.
C2_ExactlyMaxRetriesPlusOneCalls ==
    /\ Exhausted => out.calls = MAX_RETRIES + 1 /\ out.waits = MAX_RETRIES
    /\ \A t \in Running : t.pc \in {"initialize", "wait"} => t.waits = t.calls - 1

\* C2 witness: the initial connect sequence has just used up its retries.
C2_Witness == out.op = "initExhausted" /\ out.calls > 1

\* C3: once the handler of the first ready event of a handle has ended, the
\* promise of that initWbot call is resolved, with that handle, by that
\* first ready event.
FirstReadyHandled(h) ==
    /\ wbot[h].readies >= 1
    /\ ~\E t \in Running : t.kind = "ready" /\ t.h = h /\ t.n = 1

C3_ResolvedAtFirstReady ==
    \A h \in Handles :
        FirstReadyHandled(h) =>
            promise[h] = [state |-> "resolved", value |-> h, by |-> 1]

\* C4 as stated: when the initial connect sequence is used up the promise
\* is rejected (and it is when the construction throws).
C4_RejectedWhenExhausted ==
    out.op \in {"initExhausted", "initWbotThrew"} => promise[out.h].state = "rejected"

\* C4 amended: the promise is rejected when the construction throws, and
\* when the initial connect sequence is used up while the promise is still
\* pending (after that step it is never pending; if a ready event resolved
\* it before, it stays resolved).  A rejected promise has one of these two
\* causes, and a settled promise never changes again.
C4_Settled(h) == promise[h].state \in {"resolved", "rejected"}

C4_RejectionAndSettleOnce ==
    /\ [](out.op = "initWbotThrew" => promise[out.h].state = "rejected")
    /\ [](out.op = "initExhausted" => C4_Settled(out.h))
    /\ [](\A h \in Handles :
            promise[h].state = "rejected" =>
                \/ ~wbot[h].built
                \/ ~\E t \in Running : t.kind = "init" /\ t.h = h)
    /\ [][\A h \in Handles :
            /\ (promise[h].state = "pending" /\ promise'[h].state = "rejected")
                   => out'.op = "initExhausted" /\ out'.h = h
            /\ C4_Settled(h) => promise'[h] = promise[h]]_vars

\* C4 witness: the initial connect sequence was used up and the promise is
\* rejected.
C4_Witness == out.op = "initExhausted" /\ promise[out.h].state = "rejected"

\* C5: getWbot(id) throws exactly when no registered session has the id,
\* and returns a registered session with that id otherwise; the call
\* leaves the registry as it was.
C5_GetWbot ==
    /\ [](out.op = "getWbot" =>
            /\ out.res = 0 <=> ~Registered(out.id)
            /\ out.res # 0 =>
                 /\ \E i \in 1..Len(sessions) : sessions[i] = out.res
                 /\ wbot[out.res].id = out.id)
    /\ [][out'.op = "getWbot" => sessions' = sessions /\ wbot' = wbot]_vars

\* C5 witness: getWbot has returned a session that is not the first of the
\* registry.
C5_Witness ==
    /\ out.op = "getWbot" /\ out.res # 0
    /\ Len(sessions) = 2 /\ sessions[2] = out.res

\* C6: when removeWbot(id) has completed, no session with that id is
\* registered.
C6_RemovedWhenDone == out.op = "removeDone" => ~Registered(out.id)

\* C7: after the ready handler has run its update, the account is
\* CONNECTED with an empty qrcode and retries 0.
C7_AfterReady ==
    out.op = "ready" =>
        /\ Acct(out.h).status = "CONNECTED"
        /\ Acct(out.h).qrcode = ""
        /\ Acct(out.h).retries = 0

\* C7 witness: a ready event on an account that was showing a QR code and
\* had counted authentication failures.
C7_Witness ==
    out.op = "ready" /\ out.prev.retries > 0 /\ out.prev.status = "DISCONNECTED"

\* C8: an auth_failure with prior retries <= 1 leaves the qrcode and adds
\* one to retries; with prior retries > 1 it clears the credentials and
\* resets retries to 0, and the increment that follows ends at 1; the status
\* is DISCONNECTED after the increment in both cases.
C8_AuthFailure ==
    /\ (out.op = "auth_failure" /\ out.prev.retries <= 1) =>
          /\ Acct(out.h).qrcode = out.prev.qrcode
          /\ Acct(out.h).retries = out.prev.retries + 1
          /\ Acct(out.h).status = "DISCONNECTED"
    /\ (out.op = "auth_failure" /\ out.prev.retries > 1) =>
          /\ Acct(out.h).session = ""
          /\ Acct(out.h).retries = 0
    /\ out.op = "auth_failureReset" =>
          /\ Acct(out.h).session = ""
          /\ Acct(out.h).retries = 1
          /\ Acct(out.h).status = "DISCONNECTED"

\* The scenario of C9: one qr event, the only event so far, on an account
\* without credentials, and its handler has just ended.
C9_Scenario ==
    /\ out.op = "qrDone" /\ nEvents = 1 /\ nRemoves = 0
    /\ Acct(out.h).session = ""

C9_After(status) ==
    /\ Acct(out.h).status = status
    /\ Acct(out.h).qrcode = out.qr
    /\ Acct(out.h).retries = 0
    /\ getWbot(Owner(out.h)) = out.h
    /\ promise[out.h].state # "resolved"

\* C9 as stated: after initWbot and qr(p) the status is "QRCODE", the
\* qrcode is p, retries is 0, the session is registered under the account's
\* id and the promise is not resolved; it resolves only at a ready event.
C9_QrThenReady_QRCODE ==
    /\ C9_Scenario => C9_After("QRCODE")
    /\ \A h \in Handles : promise[h].state = "resolved" => promise[h].by >= 1

\* C9 amended: the same, with the status the code stores: "qrcode".
C9_QrThenReady ==
    /\ C9_Scenario => C9_After("qrcode")
    /\ \A h \in Handles :
         promise[h].state = "resolved" =>
            promise[h].by >= 1 /\ promise[h].by <= wbot[h].readies

\* C9 witness: the scenario, with the promise still pending.
C9_Witness == C9_Scenario /\ promise[out.h].state = "pending"

\* C10: a disconnected event on a registered session that was ready sets
\* the status to DISCONNECTED and clears the qrcode; its handler then emits
\* one notification and starts the reconnect timer; and, the timer and the
\* destroy being fair, the reconnect reaches its call of initializeWithRetry.
C10_WasReady(h) == wbot[h].readies >= 1 /\ getWbot(Owner(h)) = h

C10_DisconnectedThenReconnect ==
    /\ [](out.op = "disconnected" =>
            Acct(out.h).status = "DISCONNECTED" /\ Acct(out.h).qrcode = "")
    /\ [][out'.op = "disconnectedDone" =>
            /\ Len(out'.io) = 1
            /\ timers'[out'.h] = timers[out'.h] + 1]_vars
    /\ \A h \in Handles :
         (out.op = "disconnected" /\ out.h = h /\ C10_WasReady(h))
            ~> (out.op = "reconnectConnect" /\ out.h = h)

\* C10 witness: the reconnect of a registered handle that was ready and
\* then disconnected has called initializeWithRetry.
C10_Witness ==
    /\ out.op = "reconnectConnect" /\ C10_WasReady(out.h)
    /\ Acct(out.h).status = "DISCONNECTED"

\* reconnect tasks of a handle, with their multiplicity
Cycles(h) ==
    LET S == {t \in Running : t.kind = "reconnect" /\ t.h = h}
        sum[T \in SUBSET S] ==
            IF T = {} THEN 0
            ELSE LET t == CHOOSE x \in T : TRUE
                 IN  CopiesIn(t, tasks) + sum[T \ {t}]
    IN  sum[S]

\* C11: when the connect sequence of a reconnect cycle has used up its
\* retries, the catch clause sets the account to DISCONNECTED with an empty
\* qrcode and then emits one notification; neither step schedules a
\* reconnect, starts a cycle or touches the promise of initWbot, and a timer
\* is only ever set by the end of a disconnected or auth_failure handler.
C11_ReconnectFailure ==
    /\ [](out.op = "reconnectExhausted" =>
            /\ Acct(out.h).status = "DISCONNECTED"
            /\ Acct(out.h).qrcode = ""
            /\ out.io = <<>>)
    /\ [](out.op = "reconnectFailed" =>
            out.io = <<[action |-> "update", session |-> Acct(out.h)]>>)
    /\ [][out'.op \in {"reconnectExhausted", "reconnectFailed"} =>
            /\ timers' = timers
            /\ promise' = promise
            /\ \A h \in Handles : Cycles(h)' <= Cycles(h)]_vars
    /\ [][\A h \in Handles : timers'[h] > timers[h] =>
            out'.op \in {"disconnectedDone", "auth_failureDone"} /\ out'.h = h]_vars

\* C11 witness: a reconnect cycle whose MAX_RETRIES + 1 connects failed has
\* just emitted its notification while the promise of initWbot is settled
\* or pending as it was.
C11_Witness ==
    /\ out.op = "reconnectFailed"
    /\ Acct(out.h).status = "DISCONNECTED"
    /\ timers[out.h] = 0
    /\ promise[out.h].state \in {"pending", "resolved"}

\* calls of a handle suspended at the await of the whatsapp.update that
\* sets the status, with their multiplicity
AwaitingUpdate(h) ==
    LET S == {t \in Running : t.h = h /\ t.pc = "update"}
        sum[T \in SUBSET S] ==
            IF T = {} THEN 0
            ELSE LET t == CHOOSE x \in T : TRUE
                 IN  CopiesIn(t, tasks) + sum[T \ {t}]
    IN  sum[S]

\* the last step called whatsapp.update with a status
PersistsStatus ==
    \/ out.op \in {"qr", "disconnected", "ready", "auth_failureReset",
                    "reconnectExhausted", "reconnectDestroyThrew"}
    \/ out.op = "auth_failure" /\ ~authFailureMustReset(out.prev)

\* the last step ran the io.emit of a handler or of reconnect
EmitsStatus ==
    out.op \in {"qrDone", "auth_failureDone", "disconnectedDone", "readyRegistered",
                "reconnectFailed"}

\* C12: the account's status changes only in a step that calls
\* whatsapp.update with a status (qr, auth_failure, disconnected, ready, the
\* catch clause of reconnect); each such call is followed, after its await,
\* by exactly one notification {action: "update", session: account} of the
\* same handler, which carries the account as it is when it is emitted; no
\* other step emits; the authenticated event changes nothing and emits
\* nothing.
C12_OneNotificationPerStatusChange ==
    /\ [](EmitsStatus => out.io = <<[action |-> "update", session |-> Acct(out.h)]>>)
    /\ [](~EmitsStatus => out.io = <<>>)
    /\ [][\A a \in Accounts : whatsapp'[a].status # whatsapp[a].status =>
            PersistsStatus' /\ Owner(out'.h) = a]_vars
    /\ [][\A h \in Handles :
            AwaitingUpdate(h)' = AwaitingUpdate(h)
                + (IF PersistsStatus' /\ out'.h = h THEN 1 ELSE 0)
                - (IF out'.h = h THEN Len(out'.io) ELSE 0)]_vars
    /\ [][out'.op = "authenticated" =>
            whatsapp' = whatsapp /\ tasks' = tasks /\ timers' = timers]_vars

\* C12 witness: a ready handler has just emitted its notification after a
\* disconnected event changed the status again: the notification carries
\* DISCONNECTED, and the disconnected handler still owes its own.
C12_Witness ==
    /\ out.op = "readyRegistered"
    /\ Len(out.io) = 1
    /\ out.io[1].session.status = "DISCONNECTED"
    /\ AwaitingUpdate(out.h) = 1

\* the handles in the registry
Entries == {sessions[i] : i \in 1..Len(sessions)}

\* C13: an entry leaves the registry only in the step that ends a
\* removeWbot call for that entry's own id, whatever other removeWbot calls
\* and qr and ready registrations are interleaved with it.
C13_RemovesOnlyItsOwnId ==
    [][\A h \in Entries \ Entries' :
          out'.op = "removeDone" /\ wbot[h].id = out'.id]_vars

\* the last step called wbot.initialize()
CallsInitialize == out.op \in {"initWbot", "waited", "reconnectConnect"}

\* C14 as stated: initialize() is never called on a handle that has been
\* destroyed (a reconnect cycle would connect a freshly built handle).
C14_ConnectOnFreshHandle == CallsInitialize => ~wbot[out.h].destroyed

\* C14 amended: a reconnect cycle first awaits the destroy of the handle its
\* timer was set for, starting no connect before, and then runs the bounded
\* connect sequence, from retries 0, on that same handle; no handle is built
\* outside initWbot, and a handle that destroy() has closed stays marked
\* destroyed while the cycle connects it.
C14_ReconnectReusesHandle ==
    /\ [][out'.op = "reconnect" =>
            tasks' = Spawn([NoTask EXCEPT !.kind = "reconnect", !.h = out'.h,
                                          !.pc = "destroy"])]_vars
    /\ [][out'.op = "reconnectConnect" =>
            \E t \in Running :
                /\ t.kind = "reconnect" /\ t.pc = "destroy" /\ t.h = out'.h
                /\ tasks' = Become(t, [t EXCEPT !.pc = "initialize", !.retries = 0,
                                                !.calls = 1])
                /\ wbot[t.h].destroyed => wbot'[t.h].destroyed]_vars
    /\ [][\A h \in Handles :
            (wbot'[h].built # wbot[h].built \/ wbot'[h].owner # wbot[h].owner) =>
                out'.op \in {"initWbot", "initWbotThrew"} /\ out'.h = h]_vars
    /\ [][\A h \in Handles : wbot[h].destroyed => wbot'[h].destroyed]_vars

\* C14 witness: a reconnect cycle has just called initialize() on the handle
\* that its own destroy() closed.
C14_Witness ==
    /\ out.op = "reconnectConnect"
    /\ wbot[out.h].destroyed
    /\ ~wbot[out.h].open
    /\ \E t \in Running : t.kind = "reconnect" /\ t.h = out.h /\ t.pc = "initialize"

\* C15 as stated: the update of an auth_failure that found retries > 1
\* leaves the qrcode empty.
C15_QrcodeClearedAfterRetries ==
    /\ out.op = "auth_failure" /\ out.prev.retries > 1 => Acct(out.h).qrcode = ""
    /\ out.op = "auth_failureReset" => Acct(out.h).qrcode = ""

\* C15 amended: no step of the auth_failure handler changes the qrcode,
\* whatever the retries were; with retries > 1 it is the stored credentials
\* (session) that the first update empties.
C15_QrcodeUnchanged ==
    /\ out.op \in {"auth_failure", "auth_failureReset"} =>
          Acct(out.h).qrcode = out.prev.qrcode
    /\ out.op = "auth_failure" /\ out.prev.retries > 1 => Acct(out.h).session = ""
    /\ out.op = "auth_failure" /\ out.prev.retries <= 1 =>
          Acct(out.h).session = out.prev.session
    /\ [][out'.op \in {"auth_failure", "auth_failureReset", "auth_failureDone"} =>
            \A a \in Accounts : whatsapp'[a].qrcode = whatsapp[a].qrcode]_vars

\* C15 witness: an auth_failure event found retries > 1 and a qrcode, and
\* its first update has left the qrcode in place.
C15_Witness ==
    /\ out.op = "auth_failure"
    /\ out.prev.retries > 1
    /\ out.prev.qrcode # ""
    /\ Acct(out.h).qrcode = out.prev.qrcode
    /\ Acct(out.h).session = ""

\* the calls that syncUnreadMessages made for chat c, in order
LogOf(c) == SelectSeq(sync.log, LAMBDA e : e.chat = c)

\* fetchMessages with the chat's unreadCount as limit, then handleMessage for
\* the messages 1..n in that order
FetchedAndHandled(c, n) ==
    <<Call("fetchMessages", c, sync.chats[c])>> \o
        [j \in 1..n |-> Call("handleMessage", c, j)]

\* C16: syncUnreadMessages handles the chats one after another in the order
\* of the array getChats returned; it makes no call for a chat whose
\* unreadCount is 0; for a chat with unreadCount n > 0 it calls fetchMessages
\* with limit n, then handleMessage for each message returned, in the order
\* returned and one at a time, then sendSeen, and only then goes to the next
\* chat; at most one call is in flight; after an awaited call has failed it
\* makes no further call.
C16_SequentialSync ==
    /\ [](sync.inflight \in {0, 1})
    /\ [](\A p, q \in 1..Len(sync.log) :
            /\ p < q => sync.log[p].chat <= sync.log[q].chat
            /\ sync.log[p].call = "getChats" <=> p = 1)
    /\ [](\A c \in 1..Len(sync.chats) :
            /\ sync.chats[c] = 0 => LogOf(c) = <<>>
            /\ LogOf(c) # <<>> /\ c < sync.i =>
                  \E n \in 0..sync.chats[c] :
                      LogOf(c) = FetchedAndHandled(c, n) \o <<Call("sendSeen", c, 0)>>
            /\ c > sync.i => LogOf(c) = <<>>)
    /\ [](sync.pc = "fetchMessages" =>
            LogOf(sync.i) = FetchedAndHandled(sync.i, 0))
    /\ [](sync.pc = "handleMessage" =>
            sync.j <= sync.fetched /\ LogOf(sync.i) = FetchedAndHandled(sync.i, sync.j))
    /\ [](sync.pc = "sendSeen" =>
            LogOf(sync.i) = FetchedAndHandled(sync.i, sync.fetched)
                                \o <<Call("sendSeen", sync.i, 0)>>)
    /\ [](sync.pc = "done" =>
            /\ sync.inflight = 0
            /\ \A c \in 1..Len(sync.chats) : sync.chats[c] > 0 => LogOf(c) # <<>>)
    /\ [][sync.pc \in {"threw", "done"} => sync' = sync]_vars
    /\ [][sync'.pc = "threw" /\ sync.pc # "threw" =>
            sync'.log = sync.log /\ sync'.inflight = 0]_vars

\* C16 witness: a call went through a chat with two unread messages, passed
\* over a chat with none and failed in the handling of the second message of
\* a third chat, which is then neither marked seen nor followed by anything.
C16_Witness ==
    /\ sync.pc = "threw"
    /\ sync.chats = <<2, 0, 2>>
    /\ sync.log = <<Call("getChats", 0, 0),
                    Call("fetchMessages", 1, 2), Call("handleMessage", 1, 1),
                    Call("handleMessage", 1, 2), Call("sendSeen", 1, 0),
                    Call("fetchMessages", 3, 2), Call("handleMessage", 3, 1),
                    Call("handleMessage", 3, 2)>>

\* C17: an identity that is registered stays registered in every step but
\* the one that ends a removeWbot call for that identity; in particular the
\* disconnected and auth_failure handlers, the reconnect cycle and its
\* failure leave the registry as it is.
C17_RegisteredUntilRemoved ==
    /\ [][\A id \in Accounts :
            Registered(id) /\ ~Registered(id)' =>
                out'.op = "removeDone" /\ out'.id = id]_vars
    /\ [][out'.op \in {"disconnected", "disconnectedDone", "auth_failure",
                        "auth_failureReset", "auth_failureDone", "reconnect",
                        "reconnectConnect", "reconnectDestroyThrew", "retrying",
                        "waited", "initialized", "reconnectExhausted",
                        "reconnectFailed"} =>
            sessions' = sessions]_vars

\* C18: from retries 0, the retries of an account never exceed 2, whatever
\* qr, ready and auth_failure events arrive and however their handlers
\* interleave at their awaits.
C18_RetriesAtMostTwo == \A a \in Accounts : whatsapp[a].retries <= 2

\* the handle has been registered and its entry has since been removed
Removed(h) == wbot[h].id # 0 /\ h \notin Entries

\* initWbot has been called for this handle only
Sole(h) == \A g \in Handles \ {h} : ~Used(g)

\* C19: when initWbot has been called once and the session it registered
\* has been removed by removeWbot, no step but another initWbot call has the
\* session registered again: the reconnect cycles already scheduled or
\* running and the qr and ready events of the removed handle do not put it
\* back.
C19_RemovedStaysRemoved ==
    [][\A h \in Handles : Removed(h) /\ Sole(h)' => Removed(h)']_vars

\* C20: a handle never has more than one reconnect cycle scheduled or
\* running: the timers set for it and its reconnect calls in progress add
\* up to at most one.
C20_OneCyclePerSession == \A h \in Handles : timers[h] + Cycles(h) <= 1

====
